---- MODULE Spec2Model ----
(***************************************************************************)
(* A model of package got (go4x/got): the fluent test runner R, bound to   *)
(* one *testing.T, and the host testing.T behaviour it relies on.          *)
(*                                                                         *)
(* Strings are sequences of characters (one-character strings; a few       *)
(* multi-character tokens stand for escape sequences and for the fixed     *)
(* pieces of fmt's error output).  A host test (a testing.T) is a record   *)
(* in the sequence ts; ts[Root] is the T the Runner is bound to.  The      *)
(* goroutines of the running test and of its subtests form a stack: T.Run  *)
(* blocks its caller until the subtest's goroutine is done, so only the    *)
(* top frame executes.                                                     *)
(***************************************************************************)
EXTENDS Integers, Sequences, FiniteSets, TLC

\* ---------------------------------------------------------------- bounds

\* Statements (calls on the Runner or on the subtest's own T) one run executes.
MaxOps == 2
\* Length of the case lists handed to Cases.
MaxCases == 2
\* Statements of a test body that may be assertions: its first MaxAsserts.
MaxAsserts == 1
\* Setter calls made on one case builder, and Build calls.
MaxSetters == 2
MaxBuilds == 2

\* ---------------------------------------------------------------- strings

Digits == <<"0", "1", "2", "3", "4", "5", "6", "7", "8", "9">>

\* strconv.Itoa: the decimal digits of n, most significant first.
RECURSIVE ItoaNat(_)
ItoaNat(n) ==
    IF n < 10 THEN <<Digits[n + 1]>>
    ELSE ItoaNat(n \div 10) \o <<Digits[(n % 10) + 1]>>

Itoa(n) == IF n < 0 THEN <<"-">> \o ItoaNat(-n) ELSE ItoaNat(n)

\* Values handed to fmt as arguments: tagged, as Go's dynamic types are.
IntV(n) == [k |-> "int", v |-> n]
StrV(s) == [k |-> "string", v |-> s]
DurV(d) == [k |-> "duration", v |-> d]

\* More of Go's values, as the assertions receive them in an any.  Integers of
\* another type; booleans; slices and arrays with their element type (a slice
\* also with the identity of its backing array, 0 for a nil slice); pointers
\* with the identity of what they point to (0 for a nil pointer) and the
\* value there.
Int64V(n) == [k |-> "int64", v |-> n]
BoolV(b) == [k |-> "bool", v |-> b]
SliceV(elem, id, items) == [k |-> "slice", elem |-> elem, id |-> id, v |-> items]
ArrayV(elem, items) == [k |-> "array", elem |-> elem, id |-> 1, v |-> items]
PtrV(elem, id, target) == [k |-> "ptr", elem |-> elem, id |-> id, v |-> target]
\* A map, as the sequence of its values in key order.
MapV(elem, id, items) == [k |-> "map", elem |-> elem, id |-> id, v |-> items]

\* fmt's %v rendering of one value.
RECURSIVE ValueText(_)
RECURSIVE JoinText(_)
JoinText(items) ==
    IF items = <<>> THEN <<>>
    ELSE ValueText(Head(items))
            \o (IF Len(items) > 1 THEN <<" ">> ELSE <<>>)
            \o JoinText(Tail(items))

ValueText(a) ==
    CASE a.k \in {"int", "int64"} -> Itoa(a.v)
      [] a.k = "string" -> a.v
      [] a.k = "bool" -> IF a.v THEN <<"true">> ELSE <<"false">>
      [] a.k = "duration" -> Itoa(a.v) \o <<"n", "s">>
      [] a.k \in {"error", "nil"} -> a.v
      [] a.k \in {"slice", "array"} -> <<"[">> \o JoinText(a.v) \o <<"]">>
      [] a.k = "map" -> <<"map[">> \o JoinText(a.v) \o <<"]">>
      [] a.k = "ptr" -> IF a.id = 0 THEN <<"<nil>">> ELSE <<"0x", "c000">> \o Itoa(a.id)
      [] OTHER -> <<"?">>

\* fmt's rendering of one argument under one verb; a verb that does not fit
\* the argument's type yields %!verb(type=value).
FormatArg(verb, a) ==
    IF \/ verb = "v"
       \/ verb = "d" /\ a.k \in {"int", "duration"}
       \/ verb = "s" /\ a.k \in {"string", "duration"}
    THEN ValueText(a)
    ELSE <<"%!", verb, "(">> \o <<a.k, "=">> \o ValueText(a) \o <<")">>

RECURSIVE ExtraArgs(_)
ExtraArgs(args) ==
    IF args = <<>> THEN <<>>
    ELSE <<Head(args).k, "=">> \o ValueText(Head(args))
            \o (IF Len(args) > 1 THEN <<",", " ">> ELSE <<>>)
            \o ExtraArgs(Tail(args))

\* fmt.Sprintf for the verbs %v %d %s and %%: arguments are consumed left to
\* right, a verb without an argument prints %!verb(MISSING), arguments left
\* over print %!(EXTRA ...), a lone trailing % prints %!(NOVERB).
RECURSIVE Sprintf(_, _)
Sprintf(format, args) ==
    IF format = <<>>
    THEN IF args = <<>> THEN <<>>
         ELSE <<"%!(EXTRA ">> \o ExtraArgs(args) \o <<")">>
    ELSE IF Head(format) # "%"
    THEN <<Head(format)>> \o Sprintf(Tail(format), args)
    ELSE IF Len(format) = 1
    THEN <<"%!(NOVERB)">> \o Sprintf(<<>>, args)
    ELSE LET verb == format[2]
             rest == SubSeq(format, 3, Len(format))
         IN IF verb = "%" THEN <<"%">> \o Sprintf(rest, args)
            ELSE IF args = <<>>
            THEN <<"%!", verb, "(MISSING)">> \o Sprintf(rest, args)
            ELSE FormatArg(verb, Head(args)) \o Sprintf(rest, Tail(args))

\* The pass and fail markers: a glyph between two terminal escape sequences.
checkMark == <<"ESC[32m", "CHECK", "ESC[0m">>
ballotX == <<"ESC[31m", "BALLOT", "ESC[0m">>

prependTag(tag, args) == <<StrV(tag)>> \o args

\* "\t%s " in front of the caller's format.
MarkFormat(format) == <<"TAB", "%", "s", " ">> \o format

\* ---------------------------------------------------------------- cases

\* Go's nil, as a value of type any or error, and an error value.
Nil == [k |-> "nil", v |-> <<"<nil>">>]
ErrV(text) == [k |-> "error", v |-> text]

\* The dynamic type of a value held in an any.
TypeOf(a) ==
    IF a.k \in {"slice", "array", "ptr", "map"} THEN <<a.k, a.elem>> ELSE <<a.k>>

\* reflect.DeepEqual.  An untyped nil equals only an untyped nil; values of
\* different types are never equal; slices are equal when both are nil or both
\* are not, have the same length and either share their backing array or
\* have deeply equal elements; pointers when they are the same pointer or
\* point to deeply equal values; arrays element by element; the rest by ==.
RECURSIVE DeepEqual(_, _)
DeepEqual(x, y) ==
    IF x.k = "nil" \/ y.k = "nil" THEN x.k = y.k
    ELSE IF TypeOf(x) # TypeOf(y) THEN FALSE
    ELSE IF x.k = "slice"
    THEN /\ (x.id = 0) = (y.id = 0)
         /\ Len(x.v) = Len(y.v)
         /\ \/ x.id = y.id
            \/ \A i \in 1..Len(x.v) : DeepEqual(x.v[i], y.v[i])
    ELSE IF x.k = "array"
    THEN /\ Len(x.v) = Len(y.v)
         /\ \A i \in 1..Len(x.v) : DeepEqual(x.v[i], y.v[i])
    ELSE IF x.k = "ptr"
    THEN \/ x.id = y.id
         \/ /\ x.id # 0
            /\ y.id # 0
            /\ DeepEqual(x.v[1], y.v[1])
    ELSE x.v = y.v

\* value != nil for a value of type any: true unless the any itself is nil;
\* an any that holds a nil pointer or a nil slice is not nil.
IsNotNilAny(value) == value.k # "nil"

\* strings.Contains: sub occurs in str as a contiguous run.
StringsContains(str, sub) ==
    \E i \in 1..(Len(str) - Len(sub) + 1) : SubSeq(str, i, i + Len(sub) - 1) = sub

\* NewCase: the five fields of a table-driven scenario.
NewCase(name, input, want, wantErr, err) ==
    [name |-> name, input |-> input, want |-> want, wantErr |-> wantErr, err |-> err]

\* The memory the case builder works in: heap[a] is the caseImpl at address a.
\* CaseBuilder allocates the builder, whose embedded caseImpl is at BAddr, with
\* the name given and every other field at its zero value.
BAddr == 1
CaseBuilder(name) == <<NewCase(name, Nil, Nil, FALSE, Nil)>>

\* caseBuilder.Name that keeps a name already set.
BNameKeepsFirst(h, name) == h

\* The setters of caseBuilder: each assigns one field of the embedded caseImpl.
BName(h, name) == [h EXCEPT ![BAddr].name = name]
BInput(h, input) == [h EXCEPT ![BAddr].input = input]
BWant(h, want) == [h EXCEPT ![BAddr].want = want]
BWantErr(h, wantErr) == [h EXCEPT ![BAddr].wantErr = wantErr]
BErr(h, err) == [h EXCEPT ![BAddr].err = err]

\* caseBuilder.Build: "return &b.caseImpl", a pointer into the builder; the
\* memory is left as it is.
BBuild(h) == [heap |-> h, ptr |-> BAddr]

\* The accessors of a Case, read through the pointer the Case is.
Accessors(h, ptr) ==
    [name |-> h[ptr].name, input |-> h[ptr].input, want |-> h[ptr].want,
     wantErr |-> h[ptr].wantErr, err |-> h[ptr].err]

\* ---------------------------------------------------------------- state

VARIABLES
    r,      \* the Runner: title, caseNum, prefix, startTime, benchmark, parallel, T
    ts,     \* the host tests: ts[Root] is the T the Runner embeds, the rest subtests
    out,    \* the lines logged so far, each with the T it was logged on
    stack,  \* the goroutines: stack[1] runs the test function, the top one executes
    clock,  \* statements executed so far; also the reading of time.Now()
    last,   \* the statement or host step executed last, with the state before it
    heap,   \* the caseImpl objects of the case builder, by address
    built,  \* the Cases Build has returned, oldest first
    calls,  \* the calls made on the case builder, oldest first
    env,    \* the environment of the test process: env[key] is "" when key is unset
    par     \* the goroutines of the parallel subtests, by test: where each is
            \* in its body, the counter it has read, the message it announces

vars == <<r, ts, out, stack, clock, last, heap, built, calls, env, par>>

Root == 1

\* What a call hands back to its caller: the Runner it was called on, a nil
\* *R, or nothing (a method without a result, or a call that has not returned).
ThisR == "r"
NilR == "nil"
NoRet == "none"
\* A result that is not a Runner: a string, a time.
Value == "value"

\* The part of the state the Runner's methods and the host read and write,
\* and the value the call being executed returns.
World == [r |-> r, ts |-> ts, out |-> out, stack |-> stack, env |-> env, ret |-> NoRet]

Top(w) == w.stack[Len(w.stack)]

\* ---------------------------------------------------------------- host: testing.T

\* c.log: one line appended to the output of test t.
TLog(w, t, line) == [w EXCEPT !.out = Append(@, [t |-> t, s |-> line])]

\* T.Logf
TLogf(w, t, format, args) == TLog(w, t, Sprintf(format, args))

\* t and every test above it.
RECURSIVE SelfAndParents(_, _)
SelfAndParents(tests, t) ==
    IF t = 0 THEN {} ELSE {t} \cup SelfAndParents(tests, tests[t].parent)

\* T.Fail: marks the receiver and all its parents failed.  (It panics on a test
\* that is already done; the receiver here is the running test or a test above
\* it, which is not done while a subtest of it runs.)
TFail(w, t) ==
    LET up == SelfAndParents(w.ts, t)
    IN [w EXCEPT !.ts = [i \in DOMAIN w.ts |->
                            IF i \in up THEN [w.ts[i] EXCEPT !.failed = TRUE]
                            ELSE w.ts[i]]]

\* T.Errorf: log, then Fail.
TErrorf(w, t, format, args) == TFail(TLogf(w, t, format, args), t)

\* runtime.Goexit: the calling goroutine, the top frame, stops executing its
\* body; its deferred tRunner epilogue is what runs next.
Goexit(w) == [w EXCEPT !.stack[Len(w.stack)].st = "goexit", !.ret = NoRet]

\* T.FailNow: Fail, mark the receiver finished, Goexit of the caller.
TFailNow(w, t) ==
    LET f == TFail(w, t)
    IN Goexit([f EXCEPT !.ts[t].finished = TRUE])

\* T.Fatalf: log, then FailNow.
TFatalf(w, t, format, args) == TFailNow(TLogf(w, t, format, args), t)

\* T.Skipf: log, then SkipNow (skipped, finished, Goexit of the caller).
TSkipf(w, t, format, args) ==
    LET l == TLogf(w, t, format, args)
    IN Goexit([l EXCEPT !.ts[t].skipped = TRUE, !.ts[t].finished = TRUE])

\* A panic in the calling goroutine that nothing recovers: the test binary
\* crashes and no body executes a further statement.
Panic(w) == [w EXCEPT !.stack[Len(w.stack)].st = "panic", !.ret = NoRet]
Panicked(w) == Top(w).st = "panic"

\* T.Parallel: panics when the test is parallel already or has set an
\* environment variable; otherwise marks it parallel, and the caller goes on
\* once the host resumes the parallel tests.
TParallel(w, t) ==
    IF w.ts[t].isParallel \/ w.ts[t].isEnvSet
    THEN Panic(w)
    ELSE [w EXCEPT !.ts[t].isParallel = TRUE]

\* T.Setenv: panics when the test or a test above it is parallel; otherwise
\* sets the variable, keeping the old value to be restored when the test ends.
TSetenv(w, t, key, value) ==
    IF \E p \in SelfAndParents(w.ts, t) : w.ts[p].isParallel
    THEN Panic(w)
    ELSE [w EXCEPT !.ts[t].isEnvSet = TRUE,
                   !.ts[t].saved = <<[key |-> key, value |-> w.env[key]]>> \o @,
                   !.env[key] = value]

\* T.Cleanup: one more function to call when the test ends.
TCleanup(w, t) == [w EXCEPT !.ts[t].cleanups = @ + 1]

\* The cleanups of T.Setenv, run when test t ends: the variables get the
\* values they had, the last one set first.
RECURSIVE Restore(_, _)
Restore(e, saved) ==
    IF saved = <<>> THEN e
    ELSE Restore([e EXCEPT ![Head(saved).key] = Head(saved).value], Tail(saved))
RunCleanups(w, t) ==
    [w EXCEPT !.env = Restore(w.env, w.ts[t].saved), !.ts[t].saved = <<>>,
              !.ts[t].cleanups = 0]

\* A fresh subtest of parent; via names the Runner method that started it and
\* arg holds the Case handed to its callback (<<>> when there is none).  The
\* last three fields are records of the run, not fields of testing.T: the
\* statements the test's body has executed, and the number of lines logged
\* and the Runner's counter when the test was started.
NewT(parent, name, via, arg, lines, num) ==
    [name |-> name, parent |-> parent, via |-> via, arg |-> arg,
     failed |-> FALSE, finished |-> FALSE, done |-> FALSE, skipped |-> FALSE,
     isParallel |-> FALSE, isEnvSet |-> FALSE, cleanups |-> 0, saved |-> <<>>,
     stmts |-> 0, bornLines |-> lines, bornNum |-> num]

\* A goroutine running the body of test t.  loop holds the cases the loop of
\* R.Cases, called from this body, has still to run; cases, started and base
\* record that call: the list it was given, the subtests it has started so
\* far and the counter when it was called.
NewFrame(t) ==
    [t |-> t, st |-> "body", loop |-> <<>>, cases |-> <<>>, started |-> <<>>,
     base |-> 0]

\* T.Run up to the point where the caller blocks: a new subtest of the
\* receiver t is created and its goroutine started.
TRun(w, t, name, via, arg) ==
    [w EXCEPT !.ts = Append(@, NewT(t, name, via, arg, Len(w.out), w.r.caseNum)),
              !.stack = Append(@, NewFrame(Len(w.ts) + 1)),
              !.ret = NoRet]

\* ---------------------------------------------------------------- the Runner

\* R.Case with the prefix built from the counter before it is advanced.
RCaseStaleNumber(w, format, args) ==
    LET p == <<"Case ">> \o Itoa(w.r.caseNum) \o <<" -> ">>
        w1 == [w EXCEPT !.r.caseNum = @ + 1, !.r.prefix = p]
    IN TLogf(w1, w1.r.T, p \o format, args)

\* R.Case with the prefix kept in a local and never stored in the Runner.
RCaseKeepsPrefix(w, format, args) ==
    LET n == w.r.caseNum + 1
        p == <<"Case ">> \o Itoa(n) \o <<" -> ">>
        w1 == [w EXCEPT !.r.caseNum = n]
    IN TLogf(w1, w1.r.T, p \o format, args)

\* R.Case: count, rebuild the prefix, log the announcement on the embedded T.
RCase(w, format, args) ==
    LET n == w.r.caseNum + 1
        p == <<"Case ">> \o Itoa(n) \o <<" -> ">>
        w1 == [w EXCEPT !.r.caseNum = n, !.r.prefix = p]
    IN [TLogf(w1, w1.r.T, p \o format, args) EXCEPT !.ret = ThisR]

\* R.Pass that also clears the failed mark of the Runner's T.
RPassClearsFailed(w, format, args) ==
    [TLogf(w, w.r.T, MarkFormat(format), prependTag(checkMark, args))
        EXCEPT !.ts[w.r.T].failed = FALSE]

\* R.Pass
RPass(w, format, args) ==
    TLogf(w, w.r.T, MarkFormat(format), prependTag(checkMark, args))

\* R.Fail
RFail(w, format, args) ==
    TErrorf(w, w.r.T, MarkFormat(format), prependTag(ballotX, args))

\* R.Fatal that reports with Errorf where the code uses Fatalf.
RFatalNoHalt(w, format, args) ==
    TErrorf(w, w.r.T, MarkFormat(format), prependTag(ballotX, args))

\* R.Fatal
RFatal(w, format, args) ==
    TFatalf(w, w.r.T, MarkFormat(format), prependTag(ballotX, args))

\* R.Require that stops the test on a false condition, as FailNow does.
RRequireHalts(w, cond, desc, args) ==
    IF cond THEN RPass(w, desc, args)
    ELSE LET f == RFail(w, desc, args) IN TFailNow(f, f.r.T)

\* R.Require
RRequire(w, cond, desc, args) ==
    IF cond THEN RPass(w, desc, args) ELSE RFail(w, desc, args)

\* R.FailNow without the call of T.FailNow.
RFailNowNoHalt(w, cond, desc, args) ==
    IF cond THEN RPass(w, desc, args) ELSE RFail(w, desc, args)

\* R.FailNow
RFailNow(w, cond, desc, args) ==
    IF cond THEN RPass(w, desc, args)
    ELSE LET f == RFail(w, desc, args) IN TFailNow(f, f.r.T)

\* R.AssertNoErrf that stops the test before it has logged the error.
RAssertNoErrfSilent(w, err, desc, args) ==
    IF err = Nil THEN RPass(w, desc, args)
    ELSE LET f == RFail(w, desc, args) IN TFailNow(f, f.r.T)

\* R.AssertNoErrf
RAssertNoErrf(w, err, desc, args) ==
    IF err = Nil THEN RPass(w, desc, args)
    ELSE LET f == RFail(w, desc, args)
             l == TLogf(f, f.r.T,
                        <<"requires no error, but found: ", "%", "v">>, <<err>>)
         IN TFailNow(l, l.r.T)

\* R.AssertNoErr
RAssertNoErr(w, err) == RAssertNoErrf(w, err, <<"error unexpected">>, <<>>)

\* R.AssertErrf without the call of T.FailNow.
RAssertErrfNoHalt(w, err, desc, args) ==
    IF err = Nil
    THEN LET f == RFail(w, desc, args)
         IN TLogf(f, f.r.T, <<"requires error, but found nil">>, <<>>)
    ELSE RPass(w, desc, args)

\* R.AssertErrf
RAssertErrf(w, err, desc, args) ==
    IF err = Nil
    THEN LET f == RFail(w, desc, args)
             l == TLogf(f, f.r.T, <<"requires error, but found nil">>, <<>>)
         IN TFailNow(l, l.r.T)
    ELSE RPass(w, desc, args)

\* R.AssertErr
RAssertErr(w, err) == RAssertErrf(w, err, <<"error expected">>, <<>>)

\* The failure text of an assertion: the caller's first msg when there is one.
Message(default, msg) == IF Len(msg) > 0 THEN msg[1] ELSE default

\* The end of every assertion without a deferred function: "return r".
Returns(w) == [w EXCEPT !.ret = ThisR]

\* R.AssertEqual that compares a slice or pointer by identity alone.
RAssertEqualByIdentity(w, expected, actual, msg) ==
    IF ~(TypeOf(expected) = TypeOf(actual) /\ expected = actual)
    THEN Returns(RFail(w, Message(Sprintf(<<"Expected ", "%", "v", ", got ", "%", "v">>,
                                          <<expected, actual>>), msg), <<>>))
    ELSE Returns(RPass(w, <<"Values are equal">>, <<>>))

\* R.AssertEqual
RAssertEqual(w, expected, actual, msg) ==
    IF ~DeepEqual(expected, actual)
    THEN Returns(RFail(w, Message(Sprintf(<<"Expected ", "%", "v", ", got ", "%", "v">>,
                                          <<expected, actual>>), msg), <<>>))
    ELSE Returns(RPass(w, <<"Values are equal">>, <<>>))

\* R.AssertNotEqual
RAssertNotEqual(w, expected, actual, msg) ==
    IF DeepEqual(expected, actual)
    THEN Returns(RFail(w, Message(Sprintf(<<"Expected values to be different, but both are ",
                                            "%", "v">>, <<expected>>), msg), <<>>))
    ELSE Returns(RPass(w, <<"Values are not equal">>, <<>>))

\* R.AssertNil
RAssertNil(w, value, msg) ==
    IF IsNotNilAny(value)
    THEN Returns(RFail(w, Message(Sprintf(<<"Expected nil, got ", "%", "v">>, <<value>>),
                                  msg), <<>>))
    ELSE Returns(RPass(w, <<"Value is nil">>, <<>>))

\* R.AssertNotNil
RAssertNotNil(w, value, msg) ==
    IF ~IsNotNilAny(value)
    THEN Returns(RFail(w, Message(<<"Expected non-nil value, got nil">>, msg), <<>>))
    ELSE Returns(RPass(w, <<"Value is not nil">>, <<>>))

\* R.AssertTrue that stops the test where the code only marks it failed.
RAssertTrueHalts(w, condition, msg) ==
    IF ~condition
    THEN RFatal(w, Message(<<"Expected condition to be true">>, msg), <<>>)
    ELSE Returns(RPass(w, <<"Condition is true">>, <<>>))

\* R.AssertTrue
RAssertTrue(w, condition, msg) ==
    IF ~condition
    THEN Returns(RFail(w, Message(<<"Expected condition to be true">>, msg), <<>>))
    ELSE Returns(RPass(w, <<"Condition is true">>, <<>>))

\* R.AssertFalse
RAssertFalse(w, condition, msg) ==
    IF condition
    THEN Returns(RFail(w, Message(<<"Expected condition to be false">>, msg), <<>>))
    ELSE Returns(RPass(w, <<"Condition is false">>, <<>>))

\* The search of AssertContains with the first two branches of its type
\* switch only: a typed slice or an array is never searched.
ContainsNoReflection(container, item) ==
    CASE container.k = "string" ->
            item.k = "string" /\ StringsContains(container.v, item.v)
      [] TypeOf(container) = <<"slice", "any">> ->
            \E i \in 1..Len(container.v) : DeepEqual(container.v[i], item)
      [] OTHER -> FALSE

\* The search AssertContains and AssertNotContains both start with: a string
\* holds a string item that is a substring of it; a []any and, by reflection,
\* any other slice or array hold an item deeply equal to one of their elements.
Contains(container, item) ==
    CASE container.k = "string" ->
            item.k = "string" /\ StringsContains(container.v, item.v)
      [] TypeOf(container) = <<"slice", "any">> ->
            \E i \in 1..Len(container.v) : DeepEqual(container.v[i], item)
      [] OTHER ->
            /\ container.k \in {"slice", "array"}
            /\ \E i \in 1..Len(container.v) : DeepEqual(container.v[i], item)

\* R.AssertContains
RAssertContains(w, container, item, msg) ==
    IF ~Contains(container, item)
    THEN Returns(RFail(w, Message(Sprintf(<<"Expected ", "%", "v", " to contain ", "%", "v">>,
                                          <<container, item>>), msg), <<>>))
    ELSE Returns(RPass(w, <<"Container contains item">>, <<>>))

\* R.AssertNotContains that searches strings only: every other container
\* is taken to hold nothing.
RAssertNotContainsStringsOnly(w, container, item, msg) ==
    IF container.k = "string" /\ Contains(container, item)
    THEN Returns(RFail(w, Message(Sprintf(<<"Expected ", "%", "v", " not to contain ",
                                            "%", "v">>, <<container, item>>), msg), <<>>))
    ELSE Returns(RPass(w, <<"Container does not contain item">>, <<>>))

\* R.AssertNotContains
RAssertNotContains(w, container, item, msg) ==
    IF Contains(container, item)
    THEN Returns(RFail(w, Message(Sprintf(<<"Expected ", "%", "v", " not to contain ",
                                            "%", "v">>, <<container, item>>), msg), <<>>))
    ELSE Returns(RPass(w, <<"Container does not contain item">>, <<>>))

\* R.AssertPanics without the deferred recover: a panic of fn goes on to
\* the caller.
RAssertPanicsNoRecover(w, panics, msg) ==
    IF ~panics
    THEN LET b == Returns(RFail(w, <<"Expected function to panic">>, <<>>))
         IN RFail(b, Message(<<"Expected function to panic">>, msg), <<>>)
    ELSE [w EXCEPT !.stack[Len(w.stack)].st = "panic"]

\* R.AssertPanics.  fn returns: the body reports the failure and reaches
\* "return r", then the deferred function, for which recover() is nil,
\* reports it again.  fn panics: the body is abandoned, the deferred function
\* recovers and passes, and the call returns the zero value of its unnamed
\* result, a nil *R.
RAssertPanics(w, panics, msg) ==
    IF ~panics
    THEN LET b == Returns(RFail(w, <<"Expected function to panic">>, <<>>))
         IN RFail(b, Message(<<"Expected function to panic">>, msg), <<>>)
    ELSE [RPass(w, <<"Function panicked as expected">>, <<>>) EXCEPT !.ret = NilR]

\* R.AssertNotPanics; value is what fn panics with.  fn returns: "return r",
\* then the deferred function passes.  fn panics: the deferred function
\* recovers and fails, and the call returns a nil *R.
RAssertNotPanics(w, panics, value, msg) ==
    IF panics
    THEN [RFail(w, Message(Sprintf(<<"Expected function not to panic, but it panicked with ",
                                     "%", "v">>, <<value>>), msg), <<>>)
            EXCEPT !.ret = NilR]
    ELSE RPass(Returns(w), <<"Function did not panic">>, <<>>)

\* R.StartTimer; now is the reading of time.Now().
RStartTimer(w, now) ==
    RCase([w EXCEPT !.r.startTime = now], <<"Starting test timer">>, <<>>)

\* R.StopTimer that starts the next measurement at once.
RStopTimerResets(w, now) ==
    RCase([w EXCEPT !.r.startTime = now], <<"Test completed in ", "%", "v">>,
          <<DurV(now - w.r.startTime)>>)

\* R.StopTimer
RStopTimer(w, now) ==
    RCase(w, <<"Test completed in ", "%", "v">>, <<DurV(now - w.r.startTime)>>)

\* R.Skip
RSkip(w, reason, args) ==
    LET c == RCase(w, <<"Skipping test: ">> \o reason, args)
    IN TSkipf(c, c.r.T, reason, args)

\* R.Run that also advances the counter, as Caser does.
RRunCounts(w, name, via, arg) ==
    TRun([w EXCEPT !.r.caseNum = @ + 1], w.r.T, name, via, arg)

\* R.Run up to the start of the callback: T.Run on the embedded T.
RRun(w, name, via, arg) == TRun(w, w.r.T, name, via, arg)

\* R.Run and R.Caser handing back a nil *R.
RAfterRunNil(w, via) ==
    IF w.stack # <<>> /\ Top(w).st = "body" /\ via \in {"Run", "Caser"}
    THEN [w EXCEPT !.ret = NilR]
    ELSE w

\* R.Run and R.Caser after T.Run has returned to them ("return r"); R.Cases
\* has no result.  via names the method that started the subtest now over.
RAfterRun(w, via) ==
    IF w.stack # <<>> /\ Top(w).st = "body" /\ via \in {"Run", "Caser"}
    THEN [w EXCEPT !.ret = ThisR]
    ELSE w

\* R.SkipIf: "return r" unless the test is skipped.
RSkipIf(w, condition, reason, args) ==
    IF condition THEN RSkip(w, reason, args) ELSE Returns(w)

\* R.SkipUnless
RSkipUnless(w, condition, reason, args) ==
    IF ~condition THEN RSkip(w, reason, args) ELSE Returns(w)

\* R.Parallel: the flag, T.Parallel on the embedded T and, unless that
\* panicked, the announcement.
RParallel(w) ==
    LET p == TParallel([w EXCEPT !.r.parallel = TRUE], w.r.T)
    IN IF Panicked(p) THEN p ELSE RCase(p, <<"Test marked as parallel">>, <<>>)

\* R.Cleanup
RCleanup(w) == RCase(TCleanup(w, w.r.T), <<"Cleanup function registered">>, <<>>)

\* R.Helper: T.Helper only marks the caller for the line numbers of the log.
RHelper(w) == Returns(w)

\* R.TempDir, R.Getenv and R.Deadline hand back a value and leave the Runner
\* as it is: a directory, os.Getenv(key), the deadline of the embedded T.
RTempDir(w) == [w EXCEPT !.ret = Value]
RGetenv(w, key) == [w EXCEPT !.ret = Value]
RDeadline(w) == [w EXCEPT !.ret = Value]

\* R.Setenv that announces nothing.
RSetenvSilent(w, key, value) ==
    LET s == TSetenv(w, w.r.T, key, value)
    IN IF Panicked(s) THEN s ELSE Returns(s)

\* R.Setenv: T.Setenv on the embedded T and, unless that panicked, the
\* announcement.
RSetenv(w, key, value) ==
    LET s == TSetenv(w, w.r.T, key, value)
    IN IF Panicked(s) THEN s
       ELSE RCase(s, <<"Environment variable set: ", "%", "s", "=", "%", "s">>,
                  <<StrV(<<key>>), StrV(<<value>>)>>)

\* R.RunParallel: the announcement, nothing else; fn is not used.
RRunParallel(w) == RCase(w, <<"Running tests in parallel">>, <<>>)

\* R.MemoryUsage; m is what runtime.ReadMemStats reads, in KB.
RMemoryUsage(w, m) ==
    LET c == RCase(w, <<"Memory Usage">>, <<>>)
        a == TLogf(c, c.r.T, <<"Alloc: ", "%", "d", " KB">>, <<IntV(m.Alloc)>>)
        b == TLogf(a, a.r.T, <<"TotalAlloc: ", "%", "d", " KB">>, <<IntV(m.TotalAlloc)>>)
        s == TLogf(b, b.r.T, <<"Sys: ", "%", "d", " KB">>, <<IntV(m.Sys)>>)
    IN Returns(TLogf(s, s.r.T, <<"NumGC: ", "%", "d">>, <<IntV(m.NumGC)>>))

\* R.GoroutineCount; count is what runtime.NumGoroutine reads.
RGoroutineCount(w, count) ==
    RCase(w, <<"Goroutine count: ", "%", "d">>, <<IntV(count)>>)

\* R.TestInfo: an announcement, five lines, then GoroutineCount and
\* MemoryUsage, each with an announcement of its own.
RTestInfo(w, now, count, m) ==
    LET c == RCase(w, <<"Test Information">>, <<>>)
        t == c.r.T
        a == TLogf(c, t, <<"Test Name: ", "%", "s">>, <<StrV(c.ts[t].name)>>)
        b == TLogf(a, t, <<"Start Time: ", "%", "v">>, <<IntV(c.r.startTime)>>)
        d == TLogf(b, t, <<"Duration: ", "%", "v">>, <<DurV(now - c.r.startTime)>>)
        e == TLogf(d, t, <<"Parallel: ", "%", "v">>, <<BoolV(c.r.parallel)>>)
        f == TLogf(e, t, <<"Benchmark: ", "%", "v">>, <<BoolV(c.r.benchmark)>>)
    IN RMemoryUsage(RGoroutineCount(f, count), m)

\* R.Benchmark up to the start of its subtest: the announcement, the flag,
\* T.Run.  The body of the subtest is not the caller's f but a closure of
\* Benchmark itself.
RBenchmark(w, name) ==
    LET c == RCase(w, <<"Benchmark: ", "%", "s">>, <<StrV(name)>>)
        s == RRun([c EXCEPT !.r.benchmark = TRUE], name, "Benchmark", <<>>)
    IN [s EXCEPT !.stack[Len(s.stack)].st = "bench"]

\* R.Caser up to the start of the callback.
RCaser(w, name) == RRun(RCase(w, name, <<>>), name, "Caser", <<>>)

\* One iteration of the loop of R.Cases, up to the start of the callback:
\* announce the first case left, start its subtest, keep the rest for later.
RCasesIter(w, cases) ==
    LET c == Head(cases)
        a == RCase(w, c.name, <<>>)
        k == Len(a.stack)
        l == [a EXCEPT !.stack[k].loop = Tail(cases),
                       !.stack[k].started = Append(@, Len(a.ts) + 1)]
    IN RRun(l, c.name, "Cases", <<c>>)

\* R.Cases up to the start of the first callback; nothing for an empty list.
RCases(w, cases) ==
    LET k == Len(w.stack)
        e == [w EXCEPT !.stack[k].cases = cases, !.stack[k].started = <<>>,
                       !.stack[k].base = w.r.caseNum]
    IN IF cases = <<>> THEN e ELSE RCasesIter(e, cases)

\* ---------------------------------------------------------------- host: tRunner

Pop(stk) == SubSeq(stk, 1, Len(stk) - 1)

\* Whether a test above t is marked finished.
ParentFinished(tests, t) ==
    \E p \in SelfAndParents(tests, t) \ {t} : tests[p].finished

\* tRunner after the test function has returned: the test is finished and
\* done, and the caller blocked in T.Run is signalled to go on.
TRunnerReturn(w) ==
    LET t == Top(w).t
        c == RunCleanups(w, t)
    IN [c EXCEPT !.ts[t].finished = TRUE, !.ts[t].done = TRUE,
                 !.stack = Pop(w.stack)]

\* tRunner's deferred epilogue after a Goexit of the test's goroutine.  A test
\* that finished itself (FailNow, SkipNow on its own T) ends as usual.  One
\* that did not, while a test above it is finished, is marked failed ("subtest
\* may have called FailNow on a parent test") and signals false: the caller
\* blocked in T.Run then calls Goexit in turn.  Otherwise the run panics.
TRunnerGoexit(w) ==
    LET t == Top(w).t
        k == Len(w.stack)
        c == RunCleanups(w, t)
    IN IF w.ts[t].finished
       THEN [c EXCEPT !.ts[t].done = TRUE, !.stack = Pop(w.stack)]
       ELSE IF ParentFinished(w.ts, t)
       THEN LET e == TErrorf(w, t,
                       <<"subtest may have called FailNow on a parent test">>, <<>>)
                d == [RunCleanups(e, t) EXCEPT !.ts[t].done = TRUE,
                                               !.stack = Pop(e.stack)]
            IN IF k > 1 THEN Goexit(d) ELSE d
       ELSE [w EXCEPT !.stack[k].st = "panic"]

\* R.Benchmark that leaves the benchmark flag set.
RBenchmarkEndKeepsFlag(w, name) ==
    LET l == TLogf(w, w.r.T, <<"Running benchmark: ", "%", "s">>, <<StrV(name)>>)
    IN Returns(TRunnerReturn(l))

\* R.Benchmark from the closure on: it logs one line through the Runner and
\* returns, tRunner ends the subtest, and Benchmark clears the flag and
\* returns the Runner.
RBenchmarkEnd(w, name) ==
    LET l == TLogf(w, w.r.T, <<"Running benchmark: ", "%", "s">>, <<StrV(name)>>)
        e == TRunnerReturn(l)
    IN Returns([e EXCEPT !.r.benchmark = FALSE])

\* ---------------------------------------------------------------- inputs

Titles == {<<"S">>}
Formats == {[f |-> <<"m">>, a |-> <<>>], [f |-> <<"n", "%", "d">>, a |-> <<IntV(7)>>]}
Descs == {[f |-> <<"d">>, a |-> <<>>]}
Errs == {Nil, ErrV(<<"boom">>)}
\* The names of subtests: a plain one, and one that ends in a per cent sign.
Names == {<<"a">>, <<"5", "%">>}
CaseNames == <<"a", "b", "c", "d">>
\* The i-th row of the table: input i; want equal to it in the odd rows only.
CaseAt(i) ==
    NewCase(<<CaseNames[i]>>, IntV(i), IntV(IF i % 2 = 1 THEN i ELSE i + 1), FALSE, Nil)
CaseTable == [i \in 1..MaxCases |-> CaseAt(i)]
\* The lists handed to Cases: the first n rows of the table, for every n, and
\* a list that names one row twice.
CaseLists ==
    {SubSeq(CaseTable, 1, n) : n \in 0..MaxCases} \cup {<<CaseAt(1), CaseAt(1)>>}

\* ---------------------------------------------------------------- behaviour

\* New: the title line is logged with T.Log, the counter and prefix are zero
\* values, startTime is the time of construction.
New(t, title) ==
    [title |-> title, caseNum |-> 0, prefix |-> <<>>, startTime |-> 0,
     benchmark |-> FALSE, parallel |-> FALSE, T |-> t]

\* The environment a test process is started in by default: a terminal that
\* shows colours, NO_COLOR unset.
EnvKeys == {"NO_COLOR", "TERM"}
Environ == [key \in EnvKeys |-> IF key = "TERM" THEN "xterm" ELSE ""]

Init ==
    \E title \in Titles :
        /\ r = New(Root, title)
        /\ ts = <<NewT(0, <<"Test">>, "go test", <<>>, 0, 0)>>
        /\ out = <<[t |-> Root, s |-> <<"Test Case => ">> \o title]>>
        /\ stack = <<NewFrame(Root)>>
        /\ clock = 0
        /\ env = Environ
        /\ par = <<>>
        /\ heap = <<>>
        /\ built = <<>>
        /\ calls = <<>>
        /\ last = [op |-> "New", t |-> Root, ok |-> TRUE, caseNum |-> 0,
                   prefix |-> <<>>, outLen |-> 0, failed |-> {}, depth |-> 1,
                   n |-> 0, startTime |-> 0, ret |-> ThisR, args |-> <<>>]

Failed(tests) == {i \in DOMAIN tests : tests[i].failed}

\* The running test: the one whose body the top goroutine executes.
Cur == stack[Len(stack)].t

\* The parallel subtests of t that wait for t's function to return.
Paused(t) == {g \in DOMAIN par : par[g].pc = "paused" /\ ts[g].parent = t}

\* The state before a step, as last keeps it.
Before(op, ok, n) ==
    [op |-> op, t |-> Cur, ok |-> ok, caseNum |-> r.caseNum, prefix |-> r.prefix,
     outLen |-> Len(out), failed |-> Failed(ts), depth |-> Len(stack), n |-> n,
     startTime |-> r.startTime, ret |-> NoRet, args |-> <<>>]

\* The top goroutine is between two statements of a test body.
CanRun ==
    /\ stack # <<>>
    /\ stack[Len(stack)].st = "body"
    /\ stack[Len(stack)].loop = <<>>
    /\ clock < MaxOps

\* One statement of the running body: the world it leaves behind.
Stmt(w, op, ok, n) ==
    /\ r' = w.r
    /\ out' = w.out
    /\ stack' = w.stack
    /\ ts' = [w.ts EXCEPT ![Cur].stmts = @ + 1]
    /\ clock' = clock + 1
    /\ last' = [Before(op, ok, n) EXCEPT !.ret = w.ret]
    /\ env' = w.env
    /\ UNCHANGED <<heap, built, calls, par>>

\* A step of the host or of a loop already entered: no new statement.
HostStep(w, op) ==
    /\ r' = w.r
    /\ out' = w.out
    /\ stack' = w.stack
    /\ ts' = w.ts
    /\ clock' = clock
    /\ last' = [Before(op, TRUE, 0) EXCEPT !.ret = w.ret]
    /\ env' = w.env
    /\ UNCHANGED <<heap, built, calls, par>>

Case == \E m \in Formats : CanRun /\ Stmt(RCase(World, m.f, m.a), "Case", TRUE, 0)
Pass == \E d \in Descs : CanRun /\ Stmt(RPass(World, d.f, d.a), "Pass", TRUE, 0)
Fail == \E d \in Descs : CanRun /\ Stmt(RFail(World, d.f, d.a), "Fail", FALSE, 0)
Fatal == \E d \in Descs : CanRun /\ Stmt(RFatal(World, d.f, d.a), "Fatal", FALSE, 0)
Require ==
    \E c \in BOOLEAN, d \in Descs :
        CanRun /\ Stmt(RRequire(World, c, d.f, d.a), "Require", c, 0)
FailNow ==
    \E c \in BOOLEAN, d \in Descs :
        CanRun /\ Stmt(RFailNow(World, c, d.f, d.a), "FailNow", c, 0)
AssertNoErr ==
    \E e \in Errs : CanRun /\ Stmt(RAssertNoErr(World, e), "AssertNoErr", e = Nil, 0)
AssertNoErrf ==
    \E e \in Errs, d \in Descs :
        CanRun /\ Stmt(RAssertNoErrf(World, e, d.f, d.a), "AssertNoErrf", e = Nil, 0)
AssertErr ==
    \E e \in Errs : CanRun /\ Stmt(RAssertErr(World, e), "AssertErr", e # Nil, 0)
AssertErrf ==
    \E e \in Errs, d \in Descs :
        CanRun /\ Stmt(RAssertErrf(World, e, d.f, d.a), "AssertErrf", e # Nil, 0)
StartTimer == CanRun /\ Stmt(RStartTimer(World, clock), "StartTimer", TRUE, 0)
StopTimer == CanRun /\ Stmt(RStopTimer(World, clock), "StopTimer", TRUE, 0)
Skip == \E d \in Descs : CanRun /\ Stmt(RSkip(World, d.f, d.a), "Skip", TRUE, 0)
Run == \E name \in Names : CanRun /\ Stmt(RRun(World, name, "Run", <<>>), "Run", TRUE, 0)
Caser == \E name \in Names : CanRun /\ Stmt(RCaser(World, name), "Caser", TRUE, 0)
Cases ==
    \E cases \in CaseLists :
        CanRun /\ Stmt(RCases(World, cases), "Cases", TRUE, Len(cases))

\* The loop of R.Cases goes on after a callback that let its caller continue.
CasesNext ==
    /\ stack # <<>>
    /\ stack[Len(stack)].st = "body"
    /\ stack[Len(stack)].loop # <<>>
    /\ HostStep(RCasesIter(World, stack[Len(stack)].loop), "CasesNext")

\* The callback's own T (the test function's t at the root): t.Errorf, t.FailNow.
OwnErrorf ==
    CanRun /\ Stmt(TErrorf(World, Cur, <<"e">>, <<>>), "t.Errorf", FALSE, 0)
OwnFailNow == CanRun /\ Stmt(TFailNow(World, Cur), "t.FailNow", FALSE, 0)

\* The running body returns.
Return ==
    /\ stack # <<>>
    /\ stack[Len(stack)].st = "body"
    /\ stack[Len(stack)].loop = <<>>
    /\ Paused(Cur) = {}
    /\ HostStep(RAfterRun(TRunnerReturn(World), ts[Cur].via), "return")

\* The goroutine that called Goexit runs its epilogue.
Exit ==
    /\ stack # <<>>
    /\ stack[Len(stack)].st = "goexit"
    /\ HostStep(RAfterRun(TRunnerGoexit(World), ts[Cur].via), "goexit")

Next ==
    \/ Case \/ Pass \/ Fail \/ Fatal \/ Require \/ FailNow
    \/ AssertNoErr \/ AssertNoErrf \/ AssertErr \/ AssertErrf
    \/ StartTimer \/ StopTimer \/ Skip
    \/ Run \/ Caser \/ Cases \/ CasesNext
    \/ OwnErrorf \/ OwnFailNow
    \/ Return \/ Exit

Spec == Init /\ [][Next]_vars

\* ---------------------------------------------------------------- helpers

\* What the runtime reports: memory in KB, goroutines.
MemStats == [Alloc |-> 1, TotalAlloc |-> 2, Sys |-> 3, NumGC |-> 0]
NumGoroutine == 2
\* The variables Setenv is called with, and their values.
Settings ==
    {[key |-> "NO_COLOR", value |-> "1"], [key |-> "TERM", value |-> "dumb"],
     [key |-> "TERM", value |-> "xterm"]}

SkipIf ==
    \E condition \in BOOLEAN, d \in Descs :
        CanRun /\ Stmt(RSkipIf(World, condition, d.f, d.a), "SkipIf", condition, 0)
SkipUnless ==
    \E condition \in BOOLEAN, d \in Descs :
        CanRun /\ Stmt(RSkipUnless(World, condition, d.f, d.a), "SkipUnless", condition, 0)
Parallel == CanRun /\ Stmt(RParallel(World), "Parallel", TRUE, 0)
Cleanup == CanRun /\ Stmt(RCleanup(World), "Cleanup", TRUE, 0)
Helper == CanRun /\ Stmt(RHelper(World), "Helper", TRUE, 0)
TempDir == CanRun /\ Stmt(RTempDir(World), "TempDir", TRUE, 0)
Setenv ==
    \E s \in Settings : CanRun /\ Stmt(RSetenv(World, s.key, s.value), "Setenv", TRUE, 0)
Getenv == \E key \in EnvKeys : CanRun /\ Stmt(RGetenv(World, key), "Getenv", TRUE, 0)
Deadline == CanRun /\ Stmt(RDeadline(World), "Deadline", TRUE, 0)
RunParallel == CanRun /\ Stmt(RRunParallel(World), "RunParallel", TRUE, 0)
MemoryUsage == CanRun /\ Stmt(RMemoryUsage(World, MemStats), "MemoryUsage", TRUE, 0)
GoroutineCount ==
    CanRun /\ Stmt(RGoroutineCount(World, NumGoroutine), "GoroutineCount", TRUE, 0)
TestInfo ==
    CanRun /\ Stmt(RTestInfo(World, clock, NumGoroutine, MemStats), "TestInfo", TRUE, 0)
Benchmark ==
    \E name \in Names : CanRun /\ Stmt(RBenchmark(World, name), "Benchmark", TRUE, 0)

\* The subtest of Benchmark runs its closure and ends.
BenchmarkBody ==
    /\ stack # <<>>
    /\ stack[Len(stack)].st = "bench"
    /\ HostStep(RBenchmarkEnd(World, ts[Cur].name), "BenchmarkBody")

\* A test body made of announcements and helper calls.
NextHelpers ==
    \/ Case \/ StartTimer \/ StopTimer
    \/ Skip \/ SkipIf \/ SkipUnless
    \/ Parallel \/ Cleanup \/ Helper \/ TempDir \/ Setenv \/ Getenv \/ Deadline
    \/ RunParallel \/ MemoryUsage \/ GoroutineCount \/ TestInfo
    \/ Benchmark \/ BenchmarkBody
    \/ Run \/ Return \/ Exit

SpecHelpers == Init /\ [][NextHelpers]_vars

\* A test body that reports passes and failures and sets the environment.
NextColor ==
    \/ Pass \/ Fail \/ Fatal \/ Require
    \/ Setenv \/ Run
    \/ Return \/ Exit

SpecColor == Init /\ [][NextColor]_vars

\* ---------------------------------------------------------------- assertions

\* The values handed to the assertions.  Two slices built separately with the
\* same elements, a shorter one, a nil and an empty one; the same number as an
\* int and as an int64; an untyped nil, a nil *int and a pointer to an int.
Ints123 == <<IntV(1), IntV(2), IntV(3)>>
Values ==
    {IntV(5), Int64V(5), Nil,
     SliceV("int", 1, Ints123), SliceV("int", 2, Ints123),
     SliceV("int", 3, <<IntV(1), IntV(2)>>),
     SliceV("int", 0, <<>>), SliceV("int", 4, <<>>),
     PtrV("int", 0, <<>>), PtrV("int", 6, <<IntV(5)>>)}
Hello == <<"h", "e", "l", "l", "o">>
Containers ==
    {StrV(Hello), SliceV("int", 1, Ints123), SliceV("any", 5, Ints123),
     ArrayV("int", Ints123), SliceV("any", 7, <<Nil, StrV(Hello)>>), IntV(5),
     MapV("int", 8, <<IntV(2)>>), Nil}
Items == {StrV(<<"l", "l">>), StrV(<<"l", "e">>), StrV(Hello), IntV(2), IntV(9), Nil}
\* The variadic msg of an assertion: absent, or one custom text.  It only
\* replaces the failure text, so the assertions of two values are given a
\* custom one with the plain values and the strings alone.
Msgs == {<<>>, << <<"custom">> >>}
MsgsFor(a) == IF a.k \in {"int", "int64", "nil", "string"} THEN Msgs ELSE {<<>>}

\* An assertion may be the next statement.
CanAssert == CanRun /\ clock < MaxAsserts

\* One assertion of the running body: Stmt, with the inputs kept for reading.
StmtA(w, op, in, msg) ==
    /\ r' = w.r
    /\ out' = w.out
    /\ stack' = w.stack
    /\ ts' = [w.ts EXCEPT ![Cur].stmts = @ + 1]
    /\ clock' = clock + 1
    /\ last' = [Before(op, TRUE, 0) EXCEPT !.ret = w.ret, !.args = [in |-> in, msg |-> msg]]
    /\ env' = w.env
    /\ UNCHANGED <<heap, built, calls, par>>

AssertEqual ==
    \E expected \in Values, actual \in Values : \E msg \in MsgsFor(expected) :
        CanAssert /\ StmtA(RAssertEqual(World, expected, actual, msg), "AssertEqual",
                           <<expected, actual>>, msg)
AssertNotEqual ==
    \E expected \in Values, actual \in Values : \E msg \in MsgsFor(expected) :
        CanAssert /\ StmtA(RAssertNotEqual(World, expected, actual, msg), "AssertNotEqual",
                           <<expected, actual>>, msg)
AssertNil ==
    \E value \in Values, msg \in Msgs :
        CanAssert /\ StmtA(RAssertNil(World, value, msg), "AssertNil", <<value>>, msg)
AssertNotNil ==
    \E value \in Values, msg \in Msgs :
        CanAssert /\ StmtA(RAssertNotNil(World, value, msg), "AssertNotNil", <<value>>, msg)
AssertTrue ==
    \E condition \in BOOLEAN, msg \in Msgs :
        CanAssert /\ StmtA(RAssertTrue(World, condition, msg), "AssertTrue",
                           <<BoolV(condition)>>, msg)
AssertFalse ==
    \E condition \in BOOLEAN, msg \in Msgs :
        CanAssert /\ StmtA(RAssertFalse(World, condition, msg), "AssertFalse",
                           <<BoolV(condition)>>, msg)
AssertContains ==
    \E container \in Containers, item \in Items : \E msg \in MsgsFor(container) :
        CanAssert /\ StmtA(RAssertContains(World, container, item, msg), "AssertContains",
                           <<container, item>>, msg)
AssertNotContains ==
    \E container \in Containers, item \in Items : \E msg \in MsgsFor(container) :
        CanAssert /\ StmtA(RAssertNotContains(World, container, item, msg),
                           "AssertNotContains", <<container, item>>, msg)
\* fn either returns or panics, here with the error value "boom".
AssertPanics ==
    \E panics \in BOOLEAN, msg \in Msgs :
        CanAssert /\ StmtA(RAssertPanics(World, panics, msg), "AssertPanics",
                           <<BoolV(panics)>>, msg)
AssertNotPanics ==
    \E panics \in BOOLEAN, msg \in Msgs :
        CanAssert /\ StmtA(RAssertNotPanics(World, panics, ErrV(<<"boom">>), msg),
                           "AssertNotPanics", <<BoolV(panics)>>, msg)

\* A test body made of assertions and plain failure reports.
NextAssert ==
    \/ AssertEqual \/ AssertNotEqual \/ AssertNil \/ AssertNotNil
    \/ AssertTrue \/ AssertFalse \/ AssertContains \/ AssertNotContains
    \/ AssertPanics \/ AssertNotPanics
    \/ Fail
    \/ Return

SpecAssert == Init /\ [][NextAssert]_vars

\* A test body made of reports, assertions and timer calls.
NextFrame ==
    \/ NextAssert
    \/ Pass \/ Require
    \/ StartTimer \/ StopTimer

SpecFrame == Init /\ [][NextFrame]_vars

\* ---------------------------------------------------------------- parallel subtests

\* Subtests of one run that call t.Parallel().
MaxPar == 2

\* R.Case is three statements on the fields of the one Runner, with no lock:
\* r.caseNum++ reads the counter and writes the value read plus one;
\* r.prefix = ... reads the counter again; r.Logf(r.prefix + format) reads
\* the prefix.  Between any two of these steps the goroutine of another
\* subtest may run.  (The prefixes written here have one length, so a read
\* that races with a write yields one of the two whole strings.)

\* r.caseNum++ as one indivisible step.
CaseStoreAtomic(w, tmp) == [w EXCEPT !.r.caseNum = @ + 1]

\* The write of r.caseNum++: one more than the value read before.
CaseStore(w, tmp) == [w EXCEPT !.r.caseNum = tmp + 1]

\* r.prefix = "Case " + strconv.Itoa(r.caseNum) + " -> "
CasePrefix(w) == [w EXCEPT !.r.prefix = <<"Case ">> \o Itoa(w.r.caseNum) \o <<" -> ">>]

\* r.Logf(r.prefix+format, args...)
CaseLog(w, format, args) == TLogf(w, w.r.T, w.r.prefix \o format, args)

\* A step of the host or of a parallel subtest g: the world and the
\* goroutines it leaves behind.
ParStep(w, op, g, p) ==
    /\ r' = w.r
    /\ out' = w.out
    /\ stack' = w.stack
    /\ ts' = w.ts
    /\ env' = w.env
    /\ par' = p
    /\ last' = [last EXCEPT !.op = op, !.t = g, !.caseNum = r.caseNum,
                            !.prefix = r.prefix, !.outLen = Len(out),
                            !.failed = Failed(ts), !.depth = Len(stack),
                            !.ret = w.ret]
    /\ UNCHANGED <<clock, heap, built, calls>>

\* The body of a subtest calls t.Parallel() on its own T: the test is marked
\* parallel, T.Run returns to its caller (so R.Run returns r), and the
\* subtest waits until the function of its parent has returned.
SubParallel ==
    /\ Len(stack) > 1
    /\ stack[Len(stack)].st = "body"
    /\ stack[Len(stack)].loop = <<>>
    /\ ts[Cur].via = "Run"
    /\ Cardinality(DOMAIN par) < MaxPar
    /\ LET w == TParallel(World, Cur)
           v == RAfterRun([w EXCEPT !.stack = Pop(@)], ts[Cur].via)
       IN ParStep(v, "t.Parallel", Cur,
                  par @@ (Cur :> [pc |-> "paused", tmp |-> 0, m |-> <<>>]))

\* tRunner after the function of a test with waiting parallel subtests has
\* returned: the test is finished, and its parallel subtests are released to
\* run together; it is done only when they are.
Release ==
    /\ stack # <<>>
    /\ stack[Len(stack)].st = "body"
    /\ stack[Len(stack)].loop = <<>>
    /\ Paused(Cur) # {}
    /\ ParStep([World EXCEPT !.ts[Cur].finished = TRUE, !.stack = Pop(@)],
               "release", Cur,
               [g \in DOMAIN par |->
                   IF g \in Paused(Cur) THEN [par[g] EXCEPT !.pc = "load"] ELSE par[g]])

\* r.Case(format, args...) in the body of parallel subtest g; the read of
\* r.caseNum++.
CaseLoad(g) ==
    \E m \in Descs :
        /\ par[g].pc = "load"
        /\ ParStep(World, "load", g,
                   [par EXCEPT ![g] = [pc |-> "store", tmp |-> r.caseNum, m |-> m]])

\* The write of r.caseNum++.
CaseWrite(g) ==
    /\ par[g].pc = "store"
    /\ ParStep(CaseStore(World, par[g].tmp), "store", g, [par EXCEPT ![g].pc = "prefix"])

CaseSetPrefix(g) ==
    /\ par[g].pc = "prefix"
    /\ ParStep(CasePrefix(World), "prefix", g, [par EXCEPT ![g].pc = "log"])

CaseAnnounce(g) ==
    /\ par[g].pc = "log"
    /\ ParStep(CaseLog(World, par[g].m.f, par[g].m.a), "log", g,
               [par EXCEPT ![g].pc = "return"])

\* The function of parallel subtest g returns: g is finished and done, and
\* when it is the last of its parent's subtests to be, so is the parent.
ParReturn(g) ==
    /\ par[g].pc = "return"
    /\ LET p == [par EXCEPT ![g].pc = "done"]
           t == ts[g].parent
           w == [World EXCEPT !.ts[g].finished = TRUE, !.ts[g].done = TRUE]
           alone == \A h \in DOMAIN p : ts[h].parent = t => p[h].pc = "done"
       IN ParStep(IF alone THEN [RunCleanups(w, t) EXCEPT !.ts[t].done = TRUE] ELSE w,
                  "return", g, p)

NextPar ==
    \/ Case \/ Run \/ Return
    \/ SubParallel \/ Release
    \/ \E g \in DOMAIN par :
          CaseLoad(g) \/ CaseWrite(g) \/ CaseSetPrefix(g) \/ CaseAnnounce(g) \/ ParReturn(g)

SpecPar == Init /\ [][NextPar]_vars

\* ---------------------------------------------------------------- the case builder

BNames == {<<"a">>, <<"b">>}
BInputs == {IntV(1), IntV(2)}
BWants == {IntV(1), StrV(<<"w">>)}

\* One call on the builder: the memory it leaves, and the call written down.
Call(h, f, v) ==
    /\ heap' = h
    /\ calls' = Append(calls, [f |-> f, v |-> v])
    /\ UNCHANGED <<r, ts, out, stack, clock, last, env, par>>

\* A setter may be called: there is a builder, and calls left.
CanSet == heap # <<>> /\ Len(calls) <= MaxSetters

NewBuilder ==
    \E name \in BNames :
        /\ heap = <<>>
        /\ Call(CaseBuilder(name), "CaseBuilder", name)
        /\ built' = built
SetName ==
    \E name \in BNames : CanSet /\ Call(BName(heap, name), "Name", name) /\ built' = built
SetInput ==
    \E input \in BInputs :
        CanSet /\ Call(BInput(heap, input), "Input", input) /\ built' = built
SetWant ==
    \E want \in BWants : CanSet /\ Call(BWant(heap, want), "Want", want) /\ built' = built
SetWantErr ==
    \E wantErr \in BOOLEAN :
        CanSet /\ Call(BWantErr(heap, wantErr), "WantErr", wantErr) /\ built' = built
SetErr ==
    \E err \in Errs : CanSet /\ Call(BErr(heap, err), "Err", err) /\ built' = built

\* Build: the Case handed back is kept with the number of calls made before it
\* and with what its accessors return at that moment.
Build ==
    /\ heap # <<>>
    /\ Len(built) < MaxBuilds
    /\ LET b == BBuild(heap)
       IN /\ heap' = b.heap
          /\ built' = Append(built, [ptr |-> b.ptr, n |-> Len(calls),
                                      at |-> Accessors(b.heap, b.ptr)])
    /\ UNCHANGED <<r, ts, out, stack, clock, last, calls, env, par>>

NextBuilder ==
    \/ NewBuilder
    \/ SetName \/ SetInput \/ SetWant \/ SetWantErr \/ SetErr
    \/ Build

SpecBuilder == Init /\ [][NextBuilder]_vars

\* ---------------------------------------------------------------- reading the log

IsDigit(c) == \E i \in 1..10 : Digits[i] = c
DigitVal(c) == CHOOSE i \in 0..9 : Digits[i + 1] = c

\* The number a string of decimal digits denotes.
RECURSIVE Atoi(_)
Atoi(d) ==
    IF d = <<>> THEN 0
    ELSE Atoi(SubSeq(d, 1, Len(d) - 1)) * 10 + DigitVal(d[Len(d)])

\* Where the arrow of a line "Case <digits> -> ..." stands; 0 if the line does
\* not have that form.
ArrowAt(s) ==
    IF /\ Len(s) >= 3
       /\ s[1] = "Case "
       /\ \E j \in 3..Len(s) : s[j] = " -> " /\ \A i \in 2..(j - 1) : IsDigit(s[i])
    THEN CHOOSE j \in 3..Len(s) : s[j] = " -> " /\ \A i \in 2..(j - 1) : IsDigit(s[i])
    ELSE 0

IsAnnouncement(s) == ArrowAt(s) # 0
\* Canonical decimal: no leading zero.
AnnCanonical(s) == ArrowAt(s) = 3 \/ s[2] # "0"
AnnNumber(s) == Atoi(SubSeq(s, 2, ArrowAt(s) - 1))
AnnMessage(s) == SubSeq(s, ArrowAt(s) + 1, Len(s))

StartsWithCase(e) == Len(e.s) >= 1 /\ e.s[1] = "Case "
\* The case announcements logged so far, in order.
Announcements == SelectSeq(out, StartsWithCase)

IsPassLine(s) ==
    Len(s) >= 5 /\ s[1] = "TAB" /\ SubSeq(s, 2, 4) = checkMark /\ s[5] = " "
IsFailLine(s) ==
    Len(s) >= 5 /\ s[1] = "TAB" /\ SubSeq(s, 2, 4) = ballotX /\ s[5] = " "

LastLine == out[Len(out)]

\* After the last statement its body is still the running one: the statement
\* that follows it is reached.
Continues ==
    /\ Len(stack) = last.depth
    /\ stack[Len(stack)].t = last.t
    /\ stack[Len(stack)].st = "body"

\* After the last statement the goroutine of its body is exiting.
Halts ==
    /\ Len(stack) = last.depth
    /\ stack[Len(stack)].t = last.t
    /\ stack[Len(stack)].st = "goexit"

\* The goroutine of test t is exiting or gone.
HaltedIn(stk, tests, t) ==
    \/ tests[t].done
    \/ \E i \in DOMAIN stk : stk[i].t = t /\ stk[i].st # "body"

\* A body whose goroutine is exiting or gone executes no further statement
\* and does not come back.
NoRunAfterHalt ==
    \A t \in DOMAIN ts :
        HaltedIn(stack, ts, t) =>
            /\ ts'[t].stmts = ts[t].stmts
            /\ HaltedIn(stack', ts', t)

\* One pass line, logged on the Runner's T, and no test newly failed.
RecordedPass ==
    /\ Len(out) = last.outLen + 1
    /\ LastLine.t = r.T
    /\ IsPassLine(LastLine.s)
    /\ Failed(ts) = last.failed

\* C1: the counter never decreases, and the k-th case announcement logged on
\* the Runner carries the number k (the first one 1), whatever operations are
\* executed in between; the counter is the count of announcements made.
C1_CaseNumbering ==
    /\ last.caseNum <= r.caseNum
    /\ r.caseNum = Len(Announcements)
    /\ \A k \in 1..Len(Announcements) :
          /\ IsAnnouncement(Announcements[k].s)
          /\ AnnCanonical(Announcements[k].s)
          /\ AnnNumber(Announcements[k].s) = k

\* Three announcements have been made, by Case and by other operations.
C1_Witness ==
    /\ Len(Announcements) >= 3
    /\ last.op = "Case"
    /\ \E i \in DOMAIN ts : ts[i].via = "Cases"

\* C2: the stored prefix is derived from the counter: empty while the counter
\* is 0, "Case " + decimal(counter) + " -> " otherwise, and no step changes
\* one of the two without the other.
C2_PrefixDerived ==
    /\ r.caseNum = 0 => r.prefix = <<>>
    /\ r.caseNum > 0 =>
          /\ IsAnnouncement(r.prefix)
          /\ ArrowAt(r.prefix) = Len(r.prefix)
          /\ AnnCanonical(r.prefix)
          /\ AnnNumber(r.prefix) = r.caseNum
    /\ (last.caseNum = r.caseNum) <=> (last.prefix = r.prefix)

\* The prefix has been rebuilt from a non-empty one.
C2_Witness == r.caseNum >= 2 /\ last.caseNum = r.caseNum - 1 /\ last.prefix # <<>>

\* C3: Require logs one line on the Runner's T: a pass line, with no test
\* newly failed, when cond is true; a failure line, with the test marked
\* failed, when cond is false.  In both cases the calling body goes on.
C3_RequireNeverHalts ==
    last.op = "Require" =>
        /\ last.ok => RecordedPass
        /\ ~last.ok =>
              /\ Len(out) = last.outLen + 1
              /\ LastLine.t = r.T
              /\ IsFailLine(LastLine.s)
              /\ r.T \in Failed(ts)
        /\ Continues

\* Require(false) has been called in a subtest's body, with no failure before.
C3_Witness ==
    last.op = "Require" /\ ~last.ok /\ last.depth >= 2 /\ last.failed = {}

C4_State ==
    last.op = "FailNow" =>
        /\ last.ok => RecordedPass /\ Continues
        /\ ~last.ok =>
              /\ Len(out) = last.outLen + 1
              /\ LastLine.t = r.T
              /\ IsFailLine(LastLine.s)
              /\ r.T \in Failed(ts)
              /\ Halts

\* C4: FailNow with a true condition is Pass and the body goes on; with a
\* false one it logs a failure line, marks the test failed and halts the
\* calling body, which never executes another statement.
C4_FailNowHalts == []C4_State /\ [][NoRunAfterHalt]_vars

\* FailNow(false) has been called in a subtest's body.
C4_Witness == last.op = "FailNow" /\ ~last.ok /\ last.depth >= 2

C5_State ==
    last.op = "Fatal" =>
        /\ Len(out) = last.outLen + 1
        /\ LastLine.t = r.T
        /\ IsFailLine(LastLine.s)
        /\ r.T \in Failed(ts)
        /\ Halts

\* C5: Fatal logs one failure line, marks the test failed and halts the
\* calling body, which never executes another statement.
C5_FatalHalts == []C5_State /\ [][NoRunAfterHalt]_vars

\* Fatal has been called on a test that had not failed.
C5_Witness == last.op = "Fatal" /\ last.failed = {}

C6_State ==
    last.op \in {"AssertNoErr", "AssertNoErrf"} =>
        /\ last.ok => RecordedPass /\ Continues
        /\ ~last.ok =>
              /\ Len(out) = last.outLen + 2
              /\ out[Len(out) - 1].t = r.T
              /\ IsFailLine(out[Len(out) - 1].s)
              /\ LastLine.t = r.T
              /\ \E e \in Errs \ {Nil} :
                    LastLine.s = <<"requires no error, but found: ">> \o e.v
              /\ r.T \in Failed(ts)
              /\ Halts

\* C6: AssertNoErr and AssertNoErrf are Pass on a nil error; on a non-nil one
\* they log a failure line, then the error's text, mark the test failed and
\* halt the calling body, which never executes another statement.
C6_AssertNoErr == []C6_State /\ [][NoRunAfterHalt]_vars

\* AssertNoErr has met a non-nil error in a subtest's body.
C6_Witness == last.op = "AssertNoErr" /\ ~last.ok /\ last.depth >= 2

C7_State ==
    last.op \in {"AssertErr", "AssertErrf"} =>
        /\ last.ok => RecordedPass /\ Continues
        /\ ~last.ok =>
              /\ Len(out) = last.outLen + 2
              /\ out[Len(out) - 1].t = r.T
              /\ IsFailLine(out[Len(out) - 1].s)
              /\ LastLine.t = r.T
              /\ LastLine.s = <<"requires error, but found nil">>
              /\ r.T \in Failed(ts)
              /\ Halts

\* C7: AssertErr and AssertErrf are Pass on a non-nil error; on nil they log a
\* failure line, then that no error was found, mark the test failed and halt
\* the calling body, which never executes another statement.
C7_AssertErr == []C7_State /\ [][NoRunAfterHalt]_vars

\* AssertErr has met a nil error in a subtest's body.
C7_Witness == last.op = "AssertErr" /\ ~last.ok /\ last.depth >= 2

\* What a call of Cases, made from the body of frame f, has done so far: the
\* subtests it started are, in order, those of the first cases of its list,
\* each announced by the line logged right before it was started, under the
\* number the counter then had and with the case's name as message, each
\* handed its own case, and each done before the next one was announced.
\* Cases itself advances the counter by one for each case.
CasesInOrder(f) ==
    /\ Len(f.started) + Len(f.loop) = Len(f.cases)
    /\ f.loop = SubSeq(f.cases, Len(f.started) + 1, Len(f.cases))
    /\ \A j \in 1..Len(f.started) :
          LET t == f.started[j]
              c == f.cases[j]
              a == out[ts[t].bornLines].s
          IN /\ ts[t].via = "Cases"
             /\ ts[t].arg = <<c>>
             /\ ts[t].name = c.name
             /\ IsAnnouncement(a)
             /\ AnnNumber(a) = ts[t].bornNum
             /\ AnnMessage(a) = c.name
             /\ ts[t].bornNum >= f.base + j
             /\ (\A h \in 1..(j - 1) : ts[f.started[h]].stmts = 0)
                    => ts[t].bornNum = f.base + j
             /\ j < Len(f.started) => ts[t].done /\ t < f.started[j + 1]

\* C8: Cases announces and runs the cases in the order of the list, one
\* callback per case, each completed before the next announcement, and in
\* total invokes fn len(cases) times, advancing the counter by len(cases).
C8_CasesRunsAll ==
    \A i \in DOMAIN stack :
        /\ CasesInOrder(stack[i])
        /\ stack[i].st # "body" =>
              /\ Len(stack[i].started) = Len(stack[i].cases)
              /\ r.caseNum >= stack[i].base + Len(stack[i].cases)

\* The part of C8 that does not depend on the callbacks letting the loop go on.
C8_InOrder == \A i \in DOMAIN stack : CasesInOrder(stack[i])

\* A call of Cases with two cases has run both callbacks.
C8_BothRan ==
    \E i \in DOMAIN stack :
        /\ Len(stack[i].cases) = 2
        /\ Len(stack[i].started) = 2
        /\ ts[stack[i].started[2]].done

\* C9: in Cases, a failure in one case's callback, halting or not, never
\* prevents the later cases from running: while cases are left, the caller
\* is still running its loop.
C9_LaterCasesRun ==
    \A i \in DOMAIN stack :
        \A j \in 1..Len(stack[i].started) :
            (ts[stack[i].started[j]].done /\ j < Len(stack[i].cases))
                => (stack[i].st = "body" \/ j < Len(stack[i].started))

\* The loop of Cases is cut short only by a callback that halted through the
\* Runner, that is, on the T the Runner embeds.
C9_OnlyRunnerHalts ==
    \A i \in DOMAIN stack :
        (stack[i].loop # <<>> /\ stack[i].st # "body") => ts[r.T].finished

\* C10: a failure reported through the Runner from the body of a running
\* subtest is recorded against that subtest: it is marked failed.
C10_RecordedOnSubtest ==
    (last.op \in {"Fail", "Require"} /\ ~last.ok /\ last.t # r.T)
        => last.t \in Failed(ts)

\* Where the code records it: on the T the Runner embeds, the parent.
C10_RecordedOnRunnerT ==
    (last.op \in {"Fail", "Require"} /\ ~last.ok)
        => /\ r.T \in Failed(ts)
           /\ Failed(ts) \ last.failed \subseteq {r.T}

\* The operations that report a failure without stopping the test.
NonHalting ==
    {"Fail", "AssertEqual", "AssertNotEqual", "AssertNil", "AssertNotNil",
     "AssertTrue", "AssertFalse", "AssertContains", "AssertNotContains"}

\* The last statement logged a failure line as its only line.
RecordedFail ==
    /\ Len(out) = last.outLen + 1
    /\ LastLine.t = r.T
    /\ IsFailLine(LastLine.s)

\* C11: Fail and the equality, nil, boolean and containment assertions never
\* halt: each logs one line, a failing one leaves the Runner's test marked
\* failed, and in either case the body goes on to its next statement.
C11_NonHaltingFailures ==
    last.op \in NonHalting =>
        /\ Continues
        /\ RecordedFail \/ RecordedPass
        /\ RecordedFail => r.T \in Failed(ts)
        /\ last.op = "Fail" => RecordedFail

C11_Witness ==
    /\ last.op = "AssertContains"
    /\ RecordedFail
    /\ r.T \in Failed(ts) \ last.failed
    /\ Continues

\* The subtest a Run statement has just started: the newest test.
Started == Len(ts)

C12_State ==
    /\ last.op = "Run" =>
            /\ ts[Started].via = "Run"
            /\ ts[Started].parent = r.T
            /\ ts[Started].stmts = 0
            /\ ~ts[Started].done
            /\ Len(stack) = last.depth + 1
            /\ Cur = Started
            /\ stack[Len(stack)].st = "body"
            /\ r.caseNum = last.caseNum
            /\ r.prefix = last.prefix
            /\ r.startTime = last.startTime
    /\ \A t \in DOMAIN ts :
            (ts[t].via = "Run" /\ ~ts[t].done) =>
                \E i \in 2..Len(stack) : stack[i].t = t
    /\ (last.op \in {"return", "goexit"} /\ last.ret = ThisR) => ts[last.t].done

C12_Step ==
    /\ (last'.op = "Run" /\ clock' = clock + 1) =>
            /\ Len(ts') = Len(ts) + 1
            /\ stack' = Append(stack, NewFrame(Len(ts')))
    /\ \A i \in 1..(Len(stack) - 1) :
            ts'[stack[i].t].stmts = ts[stack[i].t].stmts
    /\ \A t \in DOMAIN ts :
            ts[t].done => /\ ts'[t].stmts = ts[t].stmts
                          /\ \A i \in DOMAIN stack' : stack'[i].t # t
    /\ \A t \in DOMAIN ts :
            ts[t].via = "Run" /\ ts'[t].done /\ ~ts[t].done =>
                /\ Cur = t
                /\ r' = r

\* C12: a Run statement starts exactly one subtest of the Runner's test, whose
\* body is entered once and is the only one executing until it is over; the
\* caller gets Run's result only after the subtest is done; and neither the
\* call nor the return of Run changes caseNum, prefix or startTime.
C12_RunInvokesOnce == []C12_State /\ [][C12_Step]_vars

C12_Witness ==
    /\ last.op = "return"
    /\ last.ret = ThisR
    /\ ts[last.t].via = "Run"
    /\ ts[last.t].done
    /\ ts[last.t].stmts > 0

\* C13: Case hands back the Runner it was called on, and so do Run and Caser
\* once their subtest is over and the caller goes on: the next call of a
\* chain has the same Runner, and its one counter, as receiver.
C13_ReturnsRunner ==
    /\ last.op = "Case" => last.ret = ThisR
    /\ ( /\ last.op \in {"return", "goexit"}
         /\ ts[last.t].via \in {"Run", "Caser"}
         /\ stack # <<>>
         /\ stack[Len(stack)].st = "body" ) => last.ret = ThisR

C13_Witness ==
    /\ last.op = "return"
    /\ ts[last.t].via = "Caser"
    /\ last.ret = ThisR
    /\ r.caseNum = 1

\* The assertions of equality, nil, truth, containment and panic.
Assertions == (NonHalting \ {"Fail"}) \cup {"AssertPanics", "AssertNotPanics"}

\* C14: every assertion hands back the Runner it was called on, for every
\* input and every outcome, a panicking callback of AssertPanics and
\* AssertNotPanics included; it never hands back nil.
C14_AssertReturnsRunner ==
    last.op \in Assertions => last.ret = ThisR

\* What the code does instead: the Runner comes back from every assertion
\* but the two that recovered a panic of their callback, which hand back nil.
C14_NilAfterPanic ==
    last.op \in Assertions =>
        last.ret = (IF /\ last.op \in {"AssertPanics", "AssertNotPanics"}
                       /\ last.args.in[1].v
                    THEN NilR ELSE ThisR)

\* The announcement a Caser statement has just logged, and its subtest.
CaserLine == out[last.outLen + 1].s

\* C15: Caser advances the counter by one, logs the announcement "Case n -> "
\* followed by the literal text of name, whatever characters name holds, and
\* then starts the one subtest of that name.
C15_CaserAnnouncesName ==
    last.op = "Caser" =>
        /\ r.caseNum = last.caseNum + 1
        /\ Len(out) = last.outLen + 1
        /\ CaserLine = <<"Case ">> \o Itoa(r.caseNum) \o <<" -> ">> \o ts[Started].name
        /\ ts[Started].via = "Caser"
        /\ ts[Started].bornLines = Len(out)
        /\ Cur = Started

\* What the code does instead: name is handed to Case as the format, so the
\* announcement is name as fmt renders it without arguments.
C15_CaserFormatsName ==
    last.op = "Caser" =>
        /\ r.caseNum = last.caseNum + 1
        /\ Len(out) = last.outLen + 1
        /\ CaserLine = <<"Case ">> \o Itoa(r.caseNum) \o <<" -> ">>
                            \o Sprintf(ts[Started].name, <<>>)
        /\ ts[Started].via = "Caser"
        /\ ts[Started].bornLines = Len(out)
        /\ Cur = Started

\* The value the last of the calls cs to one of the methods fs was given, or
\* zero when there is no such call.
RECURSIVE LastSet(_, _, _)
LastSet(cs, fs, zero) ==
    IF cs = <<>> THEN zero
    ELSE IF cs[Len(cs)].f \in fs THEN cs[Len(cs)].v
    ELSE LastSet(SubSeq(cs, 1, Len(cs) - 1), fs, zero)

\* The Case NewCase makes of the last value given for each field.
LastWins(cs) ==
    NewCase(LastSet(cs, {"CaseBuilder", "Name"}, <<>>), LastSet(cs, {"Input"}, Nil),
            LastSet(cs, {"Want"}, Nil), LastSet(cs, {"WantErr"}, FALSE),
            LastSet(cs, {"Err"}, Nil))

\* C16: what the accessors of a Case return when Build hands it back is what
\* they return for NewCase called with the value of the last setter call for
\* each field, the zero value for a field never set, and the name given to
\* CaseBuilder when Name was never called.
C16_BuilderAgreesWithNewCase ==
    \A i \in DOMAIN built :
        built[i].at = Accessors(<<LastWins(SubSeq(calls, 1, built[i].n))>>, 1)

C16_Witness ==
    \E i \in DOMAIN built :
        /\ built[i].n = 3
        /\ calls[2].f = "Name"
        /\ calls[3].f = "Name"
        /\ calls[2].v # calls[3].v
        /\ calls[3].v # calls[1].v
        /\ built[i].at.name = calls[3].v
        /\ built[i].at.want = Nil

\* C17: a Case that Build has handed back keeps the accessor values it had
\* at that moment, whatever setters are called on the builder afterwards; so
\* two Cases built with setters in between each keep their own values.
C17_BuildFreezes ==
    \A i \in DOMAIN built : Accessors(heap, built[i].ptr) = built[i].at

\* What the code does instead: every Case built is the builder's own
\* caseImpl, so all of them show the last value given for each field so far.
C17_BuildAliasesBuilder ==
    \A i \in DOMAIN built :
        /\ built[i].ptr = BAddr
        /\ Accessors(heap, built[i].ptr) = LastWins(calls)

\* A value with the identity of every slice and pointer in it forgotten: only
\* whether it is nil is kept.
RECURSIVE Shape(_)
ShapeAll(items) == [i \in DOMAIN items |-> Shape(items[i])]
Shape(a) ==
    IF a.k \in {"slice", "ptr"}
    THEN [a EXCEPT !.id = IF a.id = 0 THEN 0 ELSE 1, !.v = ShapeAll(a.v)]
    ELSE IF a.k = "array" THEN [a EXCEPT !.v = ShapeAll(a.v)]
    ELSE a

\* Two values have the same type and the same structure.
SameStructure(x, y) == TypeOf(x) = TypeOf(y) /\ Shape(x) = Shape(y)

\* C18: AssertEqual logs a pass exactly when its two values have the same
\* type and structure, whatever their identity, and a failure (marking the
\* test failed) otherwise; AssertNotEqual logs the opposite for every pair.
C18_EqualIsDeepEqual ==
    /\ last.op = "AssertEqual" =>
            IF SameStructure(last.args.in[1], last.args.in[2])
            THEN RecordedPass
            ELSE RecordedFail /\ r.T \in Failed(ts)
    /\ last.op = "AssertNotEqual" =>
            IF SameStructure(last.args.in[1], last.args.in[2])
            THEN RecordedFail /\ r.T \in Failed(ts)
            ELSE RecordedPass

\* Two slices built separately, with the same elements, were found equal.
C18_Witness ==
    /\ last.op = "AssertEqual"
    /\ last.args.in[1].k = "slice"
    /\ last.args.in[2].k = "slice"
    /\ last.args.in[1].id # 0
    /\ last.args.in[2].id # 0
    /\ last.args.in[1].id # last.args.in[2].id
    /\ last.args.in[1].v = Ints123
    /\ RecordedPass

\* A value is nil: the nil any, or a pointer or slice that is nil.
IsNilValue(a) == a.k = "nil" \/ (a.k \in {"ptr", "slice"} /\ a.id = 0)

\* C19: AssertNil logs a pass for every nil value, a nil pointer or slice
\* held in an any included; AssertNotNil logs a failure for every such value.
C19_NilInAnyIsNil ==
    /\ (last.op = "AssertNil" /\ IsNilValue(last.args.in[1])) => RecordedPass
    /\ (last.op = "AssertNotNil" /\ IsNilValue(last.args.in[1])) => RecordedFail

\* What the code does instead: only the nil any itself counts as nil.
C19_OnlyUntypedNil ==
    /\ last.op = "AssertNil" =>
            IF last.args.in[1].k = "nil" THEN RecordedPass ELSE RecordedFail
    /\ last.op = "AssertNotNil" =>
            IF last.args.in[1].k = "nil" THEN RecordedFail ELSE RecordedPass

\* The container is a sequence, and the same sequence as a []any.
IsSequence(c) == c.k \in {"slice", "array"}
Erased(c) == SliceV("any", c.id, c.v)

\* C20: AssertContains logs a pass exactly when the container is a string
\* with the string item as a substring, or a slice or array with an element
\* of the same type and structure as the item; and a sequence gives the
\* outcome its type-erased form gives.
C20_ContainsOutcome ==
    last.op = "AssertContains" =>
        LET c == last.args.in[1]
            item == last.args.in[2]
            found ==
                \/ /\ c.k = "string"
                   /\ item.k = "string"
                   /\ \E i \in 0..Len(c.v) : \E j \in i..Len(c.v) :
                            SubSeq(c.v, i + 1, j) = item.v
                \/ /\ IsSequence(c)
                   /\ \E i \in DOMAIN c.v : SameStructure(c.v[i], item)
        IN /\ IF found THEN RecordedPass ELSE RecordedFail /\ r.T \in Failed(ts)
           /\ IsSequence(c) => (Contains(Erased(c), item) <=> RecordedPass)

\* A typed slice was found to hold the item.
C20_Witness ==
    /\ last.op = "AssertContains"
    /\ TypeOf(last.args.in[1]) = <<"slice", "int">>
    /\ last.args.in[2] = IntV(2)
    /\ RecordedPass

\* The lines the last statement logged.
NewLines == {i \in DOMAIN out : i > last.outLen}

\* The last statement recorded a failure: it logged failure lines only, at
\* least one, on the Runner's T, which is marked failed.
FailureRecorded ==
    /\ NewLines # {}
    /\ \A i \in NewLines : out[i].t = r.T /\ IsFailLine(out[i].s)
    /\ r.T \in Failed(ts)

\* C21: AssertPanics records a pass when fn panics and a failure when fn
\* returns; AssertNotPanics the other way round; and in all four cases the
\* body that made the call goes on to its next statement: no panic reaches it.
C21_PanicsIntercepted ==
    /\ last.op = "AssertPanics" =>
            /\ Continues
            /\ IF last.args.in[1].v THEN RecordedPass ELSE FailureRecorded
    /\ last.op = "AssertNotPanics" =>
            /\ Continues
            /\ IF last.args.in[1].v THEN FailureRecorded ELSE RecordedPass

C21_Witness ==
    /\ last.op = "AssertPanics"
    /\ last.args.in[1].v
    /\ RecordedPass
    /\ Continues

\* The last statement logged exactly one line, a pass or a failure marker
\* line, on the Runner's T.
OneMarkerLine ==
    /\ Len(out) = last.outLen + 1
    /\ LastLine.t = r.T
    /\ IsPassLine(LastLine.s) \/ IsFailLine(LastLine.s)

\* The text of a marker line after the marker.
MarkerText(s) == SubSeq(s, 6, Len(s))

\* C27: every call of an assertion logs exactly one marker line; and the one
\* failure line of AssertPanics, when fn returns, is the caller's message
\* when there is one.
C27_OneMarkerLine ==
    last.op \in Assertions \cup {"Require", "FailNow"} =>
        /\ OneMarkerLine
        /\ ( /\ last.op = "AssertPanics"
             /\ ~last.args.in[1].v
             /\ last.args.msg # <<>> ) => MarkerText(LastLine.s) = last.args.msg[1]

\* What the code does instead: one line for every assertion but AssertPanics
\* with an fn that returns, which logs the fixed failure text first and then
\* a second failure line, the one with the caller's message.
C27_TwoLinesWhenNoPanic ==
    last.op \in Assertions =>
        IF last.op = "AssertPanics" /\ ~last.args.in[1].v
        THEN /\ Len(out) = last.outLen + 2
             /\ IsFailLine(out[last.outLen + 1].s)
             /\ MarkerText(out[last.outLen + 1].s) = <<"Expected function to panic">>
             /\ IsFailLine(LastLine.s)
             /\ MarkerText(LastLine.s)
                    = Message(<<"Expected function to panic">>, last.args.msg)
        ELSE OneMarkerLine

\* The line a call op of the two containment assertions logs, made now with
\* the inputs of the last statement.
LineOf(op) ==
    LET c == last.args.in[1]
        item == last.args.in[2]
        w == IF op = "AssertContains"
             THEN RAssertContains(World, c, item, last.args.msg)
             ELSE RAssertNotContains(World, c, item, last.args.msg)
    IN w.out[Len(w.out)].s

\* The container is neither a string nor a slice nor an array, or it is a
\* string and the item is not.
HoldsNothing(c, item) ==
    \/ c.k \notin {"string", "slice", "array"}
    \/ c.k = "string" /\ item.k # "string"

\* C30: for every container and item exactly one of AssertContains and
\* AssertNotContains logs a pass and the other a failure; a container that
\* can hold nothing (an integer, a map, nil, a string asked for a non-string)
\* fails AssertContains and passes AssertNotContains; and after either call
\* the body goes on: nothing panics.
C30_ContainsComplement ==
    last.op \in {"AssertContains", "AssertNotContains"} =>
        /\ Continues
        /\ OneMarkerLine
        /\ LastLine.s = LineOf(last.op)
        /\ IsPassLine(LineOf("AssertContains")) <=> IsFailLine(LineOf("AssertNotContains"))
        /\ IsFailLine(LineOf("AssertContains")) <=> IsPassLine(LineOf("AssertNotContains"))
        /\ HoldsNothing(last.args.in[1], last.args.in[2]) =>
                IF last.op = "AssertContains"
                THEN RecordedFail /\ r.T \in Failed(ts)
                ELSE RecordedPass

C30_Witness ==
    /\ last.op = "AssertNotContains"
    /\ last.args.in[1].k = "map"
    /\ last.args.in[2] = IntV(2)
    /\ RecordedPass
    /\ Continues

\* The last statement was a SkipIf or SkipUnless whose condition asks for the
\* skip, or one whose condition does not.
Skipping ==
    \/ last.op = "SkipIf" /\ last.ok
    \/ last.op = "SkipUnless" /\ ~last.ok
NotSkipping ==
    \/ last.op = "SkipIf" /\ ~last.ok
    \/ last.op = "SkipUnless" /\ last.ok

\* The last statement changed nothing and handed back the Runner.
ChangedNothing ==
    /\ Continues
    /\ Len(out) = last.outLen
    /\ r.caseNum = last.caseNum
    /\ r.prefix = last.prefix
    /\ Failed(ts) = last.failed
    /\ last.ret = ThisR

\* C23: SkipIf(true) and SkipUnless(false) skip the running test: its
\* goroutine is exiting, so no statement after the call is executed, the test
\* is marked skipped, and neither then nor later is a test marked failed (the
\* helpers record no failure of their own, so where only helpers are called
\* a test marked failed was marked so by a skip); SkipIf(false) and
\* SkipUnless(true) log nothing, leave the counter alone and let the body go
\* on.
C23_SkipIfSkips ==
    /\ Skipping => Halts /\ ts[last.t].skipped
    /\ NotSkipping => ChangedNothing
    /\ Failed(ts) = {}

\* What the code does instead: the test skipped is the one the Runner was
\* made for, which is the running one only outside subtests.
C23_SkipsRunnerT ==
    /\ Skipping => /\ Halts
                    /\ ts[r.T].skipped
                    /\ Failed(ts) = last.failed
                    /\ r.caseNum = last.caseNum + 1
    /\ NotSkipping => ChangedNothing
    /\ \A t \in Failed(ts) : t = r.T \/ (ts[r.T].finished /\ ~ts[t].finished)

\* The tests whose goroutine has not ended.
Live == {t \in DOMAIN ts : ~ts[t].done}

\* C25: Benchmark announces one case and starts one subtest of the given
\* name, whose body is Benchmark's own closure: it executes no statement of
\* the caller, logs one line and ends; the benchmark flag is set exactly
\* while that subtest runs and is clear again when Benchmark hands back the
\* Runner.  RunParallel announces one case and starts nothing.
C25_BenchmarkStub ==
    /\ r.benchmark <=> (stack # <<>> /\ stack[Len(stack)].st = "bench")
    /\ \A t \in DOMAIN ts : ts[t].via = "Benchmark" => ts[t].stmts = 0
    /\ last.op = "Benchmark" =>
            /\ r.caseNum = last.caseNum + 1
            /\ Len(out) = last.outLen + 1
            /\ IsAnnouncement(LastLine.s)
            /\ ts[Started].via = "Benchmark"
            /\ ts[Started].bornLines = Len(out)
            /\ Cur = Started
            /\ Len(stack) = last.depth + 1
            /\ Cardinality(Live) = Len(stack)
    /\ last.op = "BenchmarkBody" =>
            /\ ts[last.t].done
            /\ ~ts[last.t].failed
            /\ Len(out) = last.outLen + 1
            /\ LastLine.s = <<"Running benchmark: ">> \o ts[last.t].name
            /\ r.caseNum = last.caseNum
            /\ Len(stack) = last.depth - 1
            /\ stack[Len(stack)].st = "body"
            /\ last.ret = ThisR
    /\ last.op = "RunParallel" =>
            /\ r.caseNum = last.caseNum + 1
            /\ Len(out) = last.outLen + 1
            /\ IsAnnouncement(LastLine.s)
            /\ Continues
            /\ Cardinality(Live) = Len(stack)
            /\ last.ret = ThisR

C25_Witness ==
    /\ last.op = "BenchmarkBody"
    /\ ts[last.t].via = "Benchmark"
    /\ ts[last.t].done
    /\ ~r.benchmark
    /\ last.ret = ThisR

\* The helpers that announce a case, and those that do not.
Announcing ==
    {"StartTimer", "StopTimer", "Parallel", "Skip", "Cleanup", "Setenv",
     "RunParallel", "Benchmark", "MemoryUsage", "GoroutineCount"}
Quiet == {"Helper", "TempDir", "Getenv", "Deadline"}

\* The host refused the last statement: its goroutine panicked.
Refused ==
    /\ Len(stack) = last.depth
    /\ stack[Len(stack)].st = "panic"

\* What the helpers other than the announcing ones do to the counter, and
\* how a Case call is numbered after them.
CounterOfOthers ==
    /\ last.op = "TestInfo" => r.caseNum = last.caseNum + 3
    /\ last.op \in Quiet => r.caseNum = last.caseNum /\ Len(out) = last.outLen
    /\ last.op = "Case" =>
            /\ r.caseNum = last.caseNum + 1
            /\ AnnNumber(LastLine.s) = r.caseNum
    /\ r.caseNum = Len(Announcements)

\* C26 as stated: every call of an announcing helper advances the counter by
\* exactly one, TestInfo by three, the quiet helpers not at all; so a Case
\* call is numbered one more than all the announcements before it, the
\* helpers' included.
C26_HelpersConsumeNumbers ==
    /\ last.op \in Announcing => r.caseNum = last.caseNum + 1
    /\ CounterOfOthers

\* C26 as amended: the same, for the calls the host does not refuse; a call
\* of Parallel or Setenv in which testing panics leaves the counter as it
\* was and logs nothing.
C26_HelpersConsumeUnlessRefused ==
    /\ last.op \in Announcing =>
            IF Refused
            THEN /\ last.op \in {"Parallel", "Setenv"}
                 /\ r.caseNum = last.caseNum
                 /\ Len(out) = last.outLen
            ELSE r.caseNum = last.caseNum + 1
    /\ CounterOfOthers

C26_Witness ==
    /\ last.op = "Case"
    /\ last.caseNum = 3
    /\ AnnNumber(LastLine.s) = 4
    /\ Len(Announcements) = 4

\* Colour output is supported: NO_COLOR is unset and the terminal is not dumb.
ColorSupported == env["NO_COLOR"] = "" /\ env["TERM"] # "dumb"

\* The marker of a marker line: what stands between the tab and the blank.
RECURSIVE UpToBlank(_)
UpToBlank(s) ==
    IF s = <<>> \/ Head(s) = " " THEN <<>> ELSE <<Head(s)>> \o UpToBlank(Tail(s))
Marker(s) == UpToBlank(Tail(s))
\* The glyph alone, and the glyph between the two escape sequences.
PlainMarkers == {<<"CHECK">>, <<"BALLOT">>}
ColorMarkers == {checkMark, ballotX}

\* C22: Pass, Fail and Fatal (and Require, which reports through them) log
\* the plain glyph when colour is not supported, and the glyph wrapped in
\* escape codes only when it is.
C22_MarkerFollowsColorSupport ==
    last.op \in {"Pass", "Fail", "Fatal", "Require"} =>
        /\ Len(out) = last.outLen + 1
        /\ LastLine.s[1] = "TAB"
        /\ Marker(LastLine.s) \in (IF ColorSupported THEN ColorMarkers ELSE PlainMarkers)

\* What the code does instead: the markers are constants, escape codes
\* included, whatever the environment says.
C22_MarkerIsConstant ==
    last.op \in {"Pass", "Fail", "Fatal", "Require"} =>
        /\ Len(out) = last.outLen + 1
        /\ LastLine.s[1] = "TAB"
        /\ Marker(LastLine.s) =
                (IF last.op = "Pass" \/ (last.op = "Require" /\ last.ok)
                 THEN checkMark ELSE ballotX)

\* A failure line has been logged through the Runner.
FailureLogged == \E i \in DOMAIN out : out[i].t = r.T /\ IsFailLine(out[i].s)

Reporting == {"Pass", "Fail", "Require"} \cup Assertions
Completed(d) == <<"Test completed in ">> \o Itoa(d) \o <<"n", "s">>

Written ==
    Len(Announcements) + Cardinality({g \in DOMAIN par : par[g].pc \in {"prefix", "log"}})
Numbers == {AnnNumber(Announcements[i].s) : i \in DOMAIN Announcements}
SameNumberTwice ==
    \E i, j \in DOMAIN Announcements :
        i # j /\ AnnNumber(Announcements[i].s) = AnnNumber(Announcements[j].s)

\* C24: the Runner shared by concurrent subtests does not guard its counter:
\* the write of r.caseNum++ stores one more than the value that goroutine
\* read, whatever the others have stored since, so two subtests that read
\* the same value leave the counter one higher, not two; the counter never
\* exceeds, and may fall short of, the calls that have written it, and when
\* it is smaller than the number of announcements made, two announcements
\* carry the same number.
C24_IncrementNotAtomic ==
    /\ last.op = "store" => r.caseNum = par[last.t].tmp + 1
    /\ r.caseNum <= Written
    /\ \A n \in Numbers : 1 <= n /\ n <= Written
    /\ (\A g \in DOMAIN par : par[g].pc = "done") /\ r.caseNum < Len(Announcements)
           => SameNumberTwice

\* Two parallel subtests have announced the same number, and the counter is
\* smaller than the number of announcements: an increment was lost.
C24_Witness ==
    /\ Cardinality(DOMAIN par) = 2
    /\ \A g \in DOMAIN par : par[g].pc = "done" /\ ts[g].isParallel
    /\ Len(Announcements) = 2
    /\ SameNumberTwice
    /\ r.caseNum = 1
    /\ r.caseNum < Len(Announcements)

====
